---------------------------- MODULE Spec2Model ----------------------------
(***************************************************************************)
(* Model of the drv8833-driver crate: the percent-to-duty remap function, *)
(* the binary and PWM bridges, and the five mode wrappers of MotorDriver. *)
(* The hardware (pins, PWM channels, the fault input) is the state; every *)
(* driver call is one action that issues its pin/PWM writes in the order  *)
(* of the code and stops at the first write that fails.                   *)
(***************************************************************************)
EXTENDS Integers, Sequences, FiniteSets, TLC

(***************************************************************************)
(* Bounds of the model.                                                    *)
(***************************************************************************)
\* remap is explored for every min <= max in 0..MaxRemapDuty (and for the
\* pairs of LargeDuties)
MaxRemapDuty == 12
\* a run makes at most MaxCalls calls on the driver
MaxCalls == 2

(***************************************************************************)
(* Program constants.                                                      *)
(***************************************************************************)
\* largest value of a u16 duty (the type of remap's result)
U16Max == 65535
\* divisor of `value as f32 / 100.0`
PercentScale == 100
\* number of significand bits of an f32
F32Bits == 24

(***************************************************************************)
(* f32 arithmetic of remap, on integers.  All intermediate values stay     *)
(* below 2^31.                                                             *)
(***************************************************************************)
RECURSIVE BitLen(_)
\* number of bits of n (0 for n = 0)
BitLen(n) == IF n = 0 THEN 0 ELSE 1 + BitLen(n \div 2)

\* round-to-nearest, ties-to-even: q is the truncated quotient, twiceRem
\* twice the remainder and divisor the divisor
RoundNearestEven(q, twiceRem, divisor) ==
    IF twiceRem > divisor \/ (twiceRem = divisor /\ q % 2 = 1) THEN q + 1 ELSE q

RECURSIVE PctExp(_, _)
\* the exponent k with 2^23 <= value * 2^k / 100 < 2^24, for value >= 1
PctExp(value, k) ==
    IF value * 2^k < PercentScale * 2^(F32Bits - 1) THEN PctExp(value, k + 1) ELSE k

\* n / 100.0 rounded to an integer significand
PctRound(n) ==
    RoundNearestEven(n \div PercentScale, 2 * (n % PercentScale), PercentScale)

\* significand of percentage = value as f32 / 100.0 (= PctMant / 2^PctExp)
PctMant(value) == PctRound(value * 2^PctExp(value, 0))

\* q * 2^e as int + num / 2^bits with 0 <= num < 2^bits
F32Scale(q, e) ==
    IF e >= 0
    THEN [int |-> q * 2^e, num |-> 0, bits |-> 0]
    ELSE [int |-> q \div 2^(-e), num |-> q % 2^(-e), bits |-> -e]

\* the product A * 4096 + B, dropped by s bits and rounded to F32Bits bits
F32MulRound(A, B, s) ==
    IF s = 0 THEN A * 4096 + B
    ELSE IF s <= 12
         THEN RoundNearestEven(A * 2^(12 - s) + B \div 2^s, 2 * (B % 2^s), 2^s)
         ELSE RoundNearestEven(A \div 2^(s - 12),
                               2 * ((A % 2^(s - 12)) * 4096 + B), 2^s)

\* the number of low bits the product of bit length L loses in an f32
F32MulShift(k, A, B, L) ==
    F32Scale(F32MulRound(A, B, IF L > F32Bits THEN L - F32Bits ELSE 0),
             (IF L > F32Bits THEN L - F32Bits ELSE 0) - k)

\* the exact product is A * 4096 + B
F32MulSplit(k, A, B) ==
    F32MulShift(k, A, B, IF A > 0 THEN BitLen(A) + 12 ELSE BitLen(B))

\* (m / 2^k) * d with the significand m split at 12 bits
F32MulMant(m, k, d) ==
    F32MulSplit(k, (m \div 4096) * d + ((m % 4096) * d) \div 4096,
                ((m % 4096) * d) % 4096)

\* the f32 product percentage * d for value >= 1 and an integer d >= 0, as
\* int + num / 2^bits with 0 <= num < 2^bits
F32Mul(value, d) == F32MulMant(PctMant(value), PctExp(value, 0), d)

\* whether F / 2^n, rounded to fb fraction bits, reaches 1
F32RoundsUpAt(F, n, fb) ==
    IF n <= fb THEN FALSE
    ELSE RoundNearestEven(F \div 2^(n - fb), 2 * (F % 2^(n - fb)), 2^(n - fb))
            = 2^fb

\* whether the f32 nearest to N + F / 2^n (0 <= F < 2^n) is N + 1
F32RoundsUp(N, F, n) ==
    IF F = 0 THEN FALSE
    ELSE F32RoundsUpAt(F, n, IF N > 0 THEN F32Bits - BitLen(N)
                             ELSE F32Bits + (n - BitLen(F)))

\* `x as u16` of a non-negative integer: the cast saturates
SaturateU16(x) == IF x > U16Max THEN U16Max ELSE IF x < 0 THEN 0 ELSE x

\* faulty variant: the cast rounds to the nearest integer
F32ToU16_rounds(N, F, n) == SaturateU16(IF 2 * F >= 2^n THEN N + 1 ELSE N)
\* the f32 value N + F / 2^n (N >= 0), rounded to an f32 and cast to u16
F32ToU16(N, F, n) == SaturateU16(IF F32RoundsUp(N, F, n) THEN N + 1 ELSE N)

\* min + p for a product p >= 0
remap_add(min, p) == F32ToU16(min + p.int, p.num, p.bits)

\* min - p for a product p >= 0 (max < min: the span is negative)
remap_sub(min, p) ==
    IF p.num = 0 THEN SaturateU16(min - p.int)
    ELSE IF min - p.int - 1 < 0 THEN 0
         ELSE F32ToU16(min - p.int - 1, 2^p.bits - p.num, p.bits)

\* faulty variant: percentage * max + min (the span is not reduced by min)
remap_no_sub(value, min, max) ==
    IF value = 0 THEN min ELSE SaturateU16(min + F32Mul(value, max).int)
\* remap(value, min, max) = (percentage * (max - min) + min) as u16
remap(value, min, max) ==
    IF value = 0 THEN min
    ELSE IF max >= min
         THEN remap_add(min, F32Mul(value, max - min))
         ELSE remap_sub(min, F32Mul(value, min - max))


(***************************************************************************)
(* The hardware and the driver object.                                     *)
(***************************************************************************)
\* the five factory functions of MotorDriver
Modes == {"split", "parallel", "pwm_split", "pwm_split_single", "pwm_parallel"}
\* modes whose driver is a SplitDriver with public bridges a and b
SplitModes == {"split", "pwm_split_single"}
\* modes whose sleep handle is an Option<SLEEP> output pin
SleepPinModes == {"split", "parallel", "pwm_split"}

Bridges  == {"a", "b"}
PinNames == {"in1", "in2", "in3", "in4", "sleep"}
PwmNames == {"in1", "in2", "in3", "in4", "pwm"}
Levels   == {"Low", "High"}

\* first and second handle of a bridge: a = (in1, in2), b = (in3, in4)
In1(b) == IF b = "a" THEN "in1" ELSE "in3"
In2(b) == IF b = "a" THEN "in2" ELSE "in4"

\* max_duty_cycle() of each PWM channel (a property of the platform; the
\* channels of a bridge are given different maxima so that they can be told
\* apart)
max_duty_cycle ==
    [c \in PwmNames |-> IF c \in {"in2", "in4"} THEN 200 ELSE 100]

\* the percentages and minimum duties the callers pass
Percents  == {0, 53, 100, 150}
MinDuties == {0, 10}
\* the percentages passed to MotorDriver::set_duty_cycle
DutyPercents == Percents \cup {50}

\* remap, tabulated once over the arguments the calls below pass to it
RemapTable ==
    {<<a[1], a[2], a[3], remap(a[1], a[2], a[3])>> :
        a \in Percents \X MinDuties \X {max_duty_cycle[c] : c \in PwmNames}}
remap_tab(value, min, max) ==
    (CHOOSE t \in RemapTable : t[1] = value /\ t[2] = min /\ t[3] = max)[4]

VARIABLES
    mode,       \* which factory function built the driver
    pin,        \* level of every digital output
    duty,       \* duty of every PWM channel
    min_duty,   \* min_duty of PwmBridge a, PwmBridge b and PwmParallelDriver
    has_sleep,  \* MotorDriver.sleep is Some(pin)
    has_fault,  \* MotorDriver.fault is Some(pin)
    last,       \* the last call: its name, arguments, result and the I/O it issued
    calls,      \* the number of calls made so far
    mutex,      \* the Mutex around the shared PWM: "free" or "held"
    rm          \* one evaluation of remap: [value, min, max, out]

vars == <<mode, pin, duty, min_duty, has_sleep, has_fault, last, calls, mutex, rm>>

(***************************************************************************)
(* One I/O request of an operation, and operations as sequences of them.   *)
(***************************************************************************)
SetLow(p)          == [on |-> p, io |-> "set_low",  duty |-> 0, err |-> "GpioError", guard |-> FALSE]
SetHigh(p)         == [on |-> p, io |-> "set_high", duty |-> 0, err |-> "GpioError", guard |-> FALSE]
IsLow(p)           == [on |-> p, io |-> "is_low",   duty |-> 0, err |-> "GpioError", guard |-> FALSE]
Lock(c)            == [on |-> c, io |-> "lock",     duty |-> 0, err |-> "PwmLocked", guard |-> FALSE]
SetDuty(c, d, e)   == [on |-> c, io |-> "set_duty_cycle", duty |-> d, err |-> e, guard |-> FALSE]
FullyOff(c, e)     == [on |-> c, io |-> "set_duty_cycle_fully_off", duty |-> 0, err |-> e, guard |-> FALSE]
FullyOn(c, e)      == [on |-> c, io |-> "set_duty_cycle_fully_on",
                       duty |-> max_duty_cycle[c], err |-> e,
                       guard |-> FALSE]

\* a request made through the MutexGuard of the shared PWM
Guarded(s) == [s EXCEPT !.guard = TRUE]

PinWrites == {"set_low", "set_high"}
PwmWrites == {"set_duty_cycle", "set_duty_cycle_fully_off", "set_duty_cycle_fully_on"}
Writes    == PinWrites \cup PwmWrites

\* an operation: an early return (an error found before any I/O) or the
\* requests it issues in order
Op(steps)   == [early |-> "Ok", steps |-> steps]
Early(err)  == [early |-> err,  steps |-> <<>>]
\* x?; y
Then(x, y)  == IF x.early # "Ok" THEN x ELSE Op(x.steps \o y.steps)

(***************************************************************************)
(* bridge.rs: the binary Bridge and the PwmBridge.                         *)
(***************************************************************************)
\* impl Movement for Bridge
Bridge_forward(b) == Op(<<SetHigh(In1(b)), SetLow(In2(b))>>)
\* faulty variant: reverse drives the pins like forward
Bridge_reverse_as_forward(b) == Op(<<SetHigh(In1(b)), SetLow(In2(b))>>)
Bridge_reverse(b) == Op(<<SetLow(In1(b)), SetHigh(In2(b))>>)
\* impl Breaks for Bridge
\* faulty variant: coast releases both bridges
Bridge_coast_both(b) ==
    Op(<<SetLow("in1"), SetLow("in2"), SetLow("in3"), SetLow("in4")>>)
Bridge_coast(b)   == Op(<<SetLow(In1(b)), SetLow(In2(b))>>)
Bridge_stop(b)    == Op(<<SetHigh(In1(b)), SetHigh(In2(b))>>)

\* impl PwmMovement for PwmBridge (min is self.min_duty)
\* faulty variant: forward scales to the maximum of the second channel
PwmBridge_forward_wrong_max(b, percent, min) ==
    Op(<<SetDuty(In1(b), remap_tab(percent, min, max_duty_cycle[In2(b)]), "UnableToSetDuty"),
         FullyOff(In2(b), "UnableToSetDuty")>>)
PwmBridge_forward(b, percent, min) ==
    Op(<<SetDuty(In1(b), remap_tab(percent, min, max_duty_cycle[In1(b)]), "UnableToSetDuty"),
         FullyOff(In2(b), "UnableToSetDuty")>>)
\* faulty variant: reverse scales to the maximum of the first channel
PwmBridge_reverse_wrong_max(b, percent, min) ==
    Op(<<FullyOff(In1(b), "UnableToSetDuty"),
         SetDuty(In2(b), remap_tab(percent, min, max_duty_cycle[In1(b)]), "UnableToSetDuty")>>)
PwmBridge_reverse(b, percent, min) ==
    Op(<<FullyOff(In1(b), "UnableToSetDuty"),
         SetDuty(In2(b), remap_tab(percent, min, max_duty_cycle[In2(b)]), "UnableToSetDuty")>>)
\* impl Breaks for PwmBridge
PwmBridge_coast(b) ==
    Op(<<FullyOff(In1(b), "GpioError"), FullyOff(In2(b), "GpioError")>>)
\* faulty variant: stop turns only the first channel on
PwmBridge_stop_one_channel(b) ==
    Op(<<FullyOn(In1(b), "GpioError"), FullyOff(In2(b), "GpioError")>>)
PwmBridge_stop(b) ==
    Op(<<FullyOn(In1(b), "GpioError"), FullyOn(In2(b), "GpioError")>>)

(***************************************************************************)
(* parallel_driver.rs                                                      *)
(***************************************************************************)
ParallelDriver_forward == Then(Bridge_forward("a"), Bridge_forward("b"))
\* faulty variant: bridge B is driven forward
ParallelDriver_reverse_mixed == Then(Bridge_reverse("a"), Bridge_forward("b"))
ParallelDriver_reverse == Then(Bridge_reverse("a"), Bridge_reverse("b"))
ParallelDriver_coast   == Then(Bridge_coast("a"), Bridge_coast("b"))
ParallelDriver_stop    == Then(Bridge_stop("a"), Bridge_stop("b"))

(***************************************************************************)
(* pwm_parallel_driver.rs (min is self.min_duty)                           *)
(***************************************************************************)
\* faulty variant: the range check is missing
set_duty_cycle_percent_unchecked(percent, min) ==
    Op(<<Lock("pwm"),
         Guarded(IF percent = 0 THEN FullyOff("pwm", "UnableToSetDuty")
                 ELSE IF percent = 100 THEN FullyOn("pwm", "UnableToSetDuty")
                 ELSE SetDuty("pwm", remap_tab(percent, min, max_duty_cycle["pwm"]),
                              "UnableToSetDuty"))>>)
set_duty_cycle_percent(percent, min) ==
    IF percent > 100 THEN Early("InvalidRange")
    ELSE Op(<<Lock("pwm"),
              Guarded(IF percent = 0 THEN FullyOff("pwm", "UnableToSetDuty")
                      ELSE IF percent = 100 THEN FullyOn("pwm", "UnableToSetDuty")
                      ELSE SetDuty("pwm",
                                   remap_tab(percent, min, max_duty_cycle["pwm"]),
                                   "UnableToSetDuty"))>>)

\* faulty variant: bridge B is driven before bridge A
PwmParallelDriver_forward_b_first(percent, min) ==
    Then(set_duty_cycle_percent(percent, min),
         Then(Bridge_forward("b"), Bridge_forward("a")))
PwmParallelDriver_forward(percent, min) ==
    Then(set_duty_cycle_percent(percent, min),
         Then(Bridge_forward("a"), Bridge_forward("b")))
PwmParallelDriver_reverse(percent, min) ==
    Then(set_duty_cycle_percent(percent, min),
         Then(Bridge_reverse("a"), Bridge_reverse("b")))
PwmParallelDriver_coast(min) ==
    Then(set_duty_cycle_percent(0, min), Then(Bridge_coast("a"), Bridge_coast("b")))
PwmParallelDriver_stop(min) ==
    Then(set_duty_cycle_percent(100, min), Then(Bridge_stop("a"), Bridge_stop("b")))

(***************************************************************************)
(* driver.rs: the operations of MotorDriver itself.                        *)
(***************************************************************************)
\* MotorDriver::sleep / wakeup (sleep is Some(pin) when some is TRUE)
\* faulty variant: sleep also coasts bridge A
MotorDriver_sleep_coasts(some) ==
    IF some THEN Op(<<SetLow("sleep"), SetLow("in1"), SetLow("in2")>>) ELSE Op(<<>>)
MotorDriver_sleep(some)  == IF some THEN Op(<<SetLow("sleep")>>) ELSE Op(<<>>)
MotorDriver_wakeup(some) == IF some THEN Op(<<SetHigh("sleep")>>) ELSE Op(<<>>)
\* MotorDriver::is_faulty (fault is Some(pin) when some is TRUE)
MotorDriver_is_faulty(some) == IF some THEN Op(<<IsLow("fault")>>) ELSE Op(<<>>)
\* the value is_faulty returns when its read (if any) succeeded and the fault
\* pin was at level
\* faulty variant: the fault input is taken as active-high
is_faulty_value_active_high(some, level) == IF some THEN level = "High" ELSE FALSE
is_faulty_value(some, level) == IF some THEN level = "Low" ELSE FALSE
\* MotorDriver::set_duty_cycle: the platform's set_duty_cycle_percent scales
\* percent to the channel's maximum, duty = percent * max / 100 as u16.  It
\* holds debug_assert!(percent <= 100): a build with debug assertions
\* (debug) panics on a larger percent, a build without them writes the duty.
\* faulty variant: the percentage is ignored and the channel set fully on
MotorDriver_set_duty_cycle_full(percent, debug) ==
    Op(<<FullyOn("pwm", "UnableToSetDuty")>>)
MotorDriver_set_duty_cycle(percent, debug) ==
    IF percent > 100 /\ debug THEN Early("Panic")
    ELSE Op(<<SetDuty("pwm",
                      ((percent * max_duty_cycle["pwm"]) \div 100) % (U16Max + 1),
                      "UnableToSetDuty")>>)

(***************************************************************************)
(* Running an operation: the requests are issued in order; the `?` after   *)
(* each one returns its error at once.  f is the index of the request that *)
(* fails (0: none fails); a failed write may or may not have reached the   *)
(* hardware (applied).                                                     *)
(***************************************************************************)
\* the requests that are issued
Issued(steps, f) == IF f = 0 THEN steps ELSE SubSeq(steps, 1, f)

\* faulty variant: the error of request f is not returned at once and the
\* later requests still reach the hardware
Effective_no_abort(steps, f, applied) ==
    IF f = 0 THEN steps
    ELSE SubSeq(steps, 1, IF applied THEN f ELSE f - 1) \o SubSeq(steps, f + 1, Len(steps))
\* the requests that take effect on the hardware
Effective(steps, f, applied) ==
    IF f = 0 THEN steps ELSE SubSeq(steps, 1, IF applied THEN f ELSE f - 1)

\* the value the call returns
Result(op, f) ==
    IF op.early # "Ok" THEN op.early ELSE IF f = 0 THEN "Ok" ELSE op.steps[f].err

RECURSIVE ApplyPins(_, _)
ApplyPins(p, steps) ==
    IF steps = <<>> THEN p
    ELSE LET s == Head(steps)
         IN  ApplyPins(IF s.io = "set_low" THEN [p EXCEPT ![s.on] = "Low"]
                       ELSE IF s.io = "set_high" THEN [p EXCEPT ![s.on] = "High"]
                       ELSE p,
                       Tail(steps))

RECURSIVE ApplyDuties(_, _)
ApplyDuties(d, steps) ==
    IF steps = <<>> THEN d
    ELSE LET s == Head(steps)
         IN  ApplyDuties(IF s.io \in PwmWrites THEN [d EXCEPT ![s.on] = s.duty] ELSE d,
                         Tail(steps))

\* whether request i is issued while the MutexGuard is alive: a lock before
\* it succeeded and every request since was made through the guard
Held(steps, f, i) ==
    \E j \in 1..(i - 1) :
        /\ steps[j].io = "lock" /\ j # f
        /\ \A k \in (j + 1)..i : steps[k].guard

RECURSIVE ApplyMutex_leak_on_error(_, _, _, _)
\* faulty variant: the guard is not dropped when the call returns an error
ApplyMutex_leak_on_error(m, steps, f, i) ==
    IF i > Len(Issued(steps, f)) THEN m
    ELSE ApplyMutex_leak_on_error(
             IF (IF i = Len(Issued(steps, f)) THEN f = 0 ELSE ~steps[i + 1].guard)
             THEN "free"
             ELSE IF steps[i].io = "lock" /\ i # f THEN "held" ELSE m,
             steps, f, i + 1)
RECURSIVE ApplyMutex(_, _, _, _)
\* the state of the Mutex from request i on: a successful lock takes it, and
\* the guard is dropped (the Mutex freed) when its scope is left, by the
\* next request being made outside it or by the call returning (Ok or `?`)
ApplyMutex(m, steps, f, i) ==
    IF i > Len(Issued(steps, f)) THEN m
    ELSE ApplyMutex(
             IF i = Len(Issued(steps, f)) \/ ~steps[i + 1].guard
             THEN "free"
             ELSE IF steps[i].io = "lock" /\ i # f THEN "held" ELSE m,
             steps, f, i + 1)

\* lock() waits while the Mutex is held
CanLock(op) == (\E i \in 1..Len(op.steps) : op.steps[i].io = "lock") => mutex = "free"

\* the record of the I/O of a call
Log(steps, f) ==
    [i \in 1..Len(Issued(steps, f)) |->
        [on |-> steps[i].on, io |-> steps[i].io, duty |-> steps[i].duty, ok |-> i # f,
         held |-> Held(steps, f, i)]]

NoCall ==
    [op |-> "new", target |-> "-", percent |-> 0, result |-> "Ok", value |-> FALSE,
     read |-> "-", log |-> <<>>, changed |-> FALSE]

\* the call name(percent) on target runs op
Call(name, target, percent, op) ==
    \E f \in 0..Len(op.steps), applied \in BOOLEAN :
        /\ (f = 0 \/ op.steps[f].io \notin Writes) => applied
        /\ calls < MaxCalls
        /\ CanLock(op)
        /\ calls' = calls + 1
        /\ mutex' = ApplyMutex(mutex, op.steps, f, 1)
        /\ LET eff == Effective(op.steps, f, applied)
               np  == ApplyPins(pin, eff)
               nd  == ApplyDuties(duty, eff)
           IN  /\ pin' = np
               /\ duty' = nd
               /\ last' = [op |-> name, target |-> target, percent |-> percent,
                           result |-> Result(op, f), value |-> FALSE, read |-> "-",
                           log |-> Log(op.steps, f),
                           changed |-> (np # pin \/ nd # duty)]

(***************************************************************************)
(* The state after construction.  The levels of the pins before the first  *)
(* write are not known; a PWM channel starts off; min_duty starts at 0.    *)
(***************************************************************************)
UsedPins(m, sl) ==
    (IF m = "pwm_split" THEN {} ELSE {"in1", "in2", "in3", "in4"})
    \cup (IF sl THEN {"sleep"} ELSE {})

Init ==
    /\ mode \in Modes
    /\ has_sleep \in (IF mode \in SleepPinModes THEN BOOLEAN ELSE {FALSE})
    /\ has_fault \in BOOLEAN
    /\ pin \in {p \in [PinNames -> Levels] :
                   \A n \in PinNames \ UsedPins(mode, has_sleep) : p[n] = "Low"}
    /\ duty = [c \in PwmNames |-> 0]
    /\ min_duty = [o \in {"a", "b", "par"} |-> 0]
    /\ last = NoCall
    /\ calls = 0
    /\ mutex = "free"
    /\ rm = [value |-> 0, min |-> 0, max |-> 0, out |-> 0]

(***************************************************************************)
(* The calls.                                                              *)
(***************************************************************************)
Frame == UNCHANGED <<mode, min_duty, has_sleep, has_fault, rm>>

\* split and PWM-split-single: motor.a / motor.b are binary bridges
SplitForward(b) ==
    mode \in SplitModes /\ Call("forward", b, 0, Bridge_forward(b)) /\ Frame
SplitReverse(b) ==
    mode \in SplitModes /\ Call("reverse", b, 0, Bridge_reverse(b)) /\ Frame
SplitCoast(b) ==
    mode \in SplitModes /\ Call("coast", b, 0, Bridge_coast(b)) /\ Frame
SplitStop(b) ==
    mode \in SplitModes /\ Call("stop", b, 0, Bridge_stop(b)) /\ Frame

\* PWM-split: motor.a / motor.b are PWM bridges
PwmSplitForward(b, percent) ==
    /\ mode = "pwm_split"
    /\ Call("forward", b, percent, PwmBridge_forward(b, percent, min_duty[b]))
    /\ Frame
PwmSplitReverse(b, percent) ==
    /\ mode = "pwm_split"
    /\ Call("reverse", b, percent, PwmBridge_reverse(b, percent, min_duty[b]))
    /\ Frame
PwmSplitCoast(b) ==
    mode = "pwm_split" /\ Call("coast", b, 0, PwmBridge_coast(b)) /\ Frame
PwmSplitStop(b) ==
    mode = "pwm_split" /\ Call("stop", b, 0, PwmBridge_stop(b)) /\ Frame

\* a call that only stores a new min_duty
SetMinDuty(name, target, d, new) ==
    /\ calls < MaxCalls
    /\ calls' = calls + 1
    /\ min_duty' = new
    /\ last' = [NoCall EXCEPT !.op = name, !.target = target, !.percent = d]
    /\ UNCHANGED <<mode, pin, duty, has_sleep, has_fault, mutex, rm>>

\* PwmBridge::set_min_duty on motor.a / motor.b
PwmBridgeSetMinDuty(b, d) ==
    /\ mode = "pwm_split"
    /\ SetMinDuty("set_min_duty", b, d, [min_duty EXCEPT ![b] = d])
\* PwmSplitDriver::set_min_duty
PwmSplitSetMinDuty(d) ==
    /\ mode = "pwm_split"
    /\ SetMinDuty("set_min_duty", "all", d, [min_duty EXCEPT !["a"] = d, !["b"] = d])

\* parallel
ParallelForward ==
    mode = "parallel" /\ Call("forward", "all", 0, ParallelDriver_forward) /\ Frame
ParallelReverse ==
    mode = "parallel" /\ Call("reverse", "all", 0, ParallelDriver_reverse) /\ Frame
ParallelCoast ==
    mode = "parallel" /\ Call("coast", "all", 0, ParallelDriver_coast) /\ Frame
ParallelStop ==
    mode = "parallel" /\ Call("stop", "all", 0, ParallelDriver_stop) /\ Frame

\* PWM-parallel
PwmParallelForward(percent) ==
    /\ mode = "pwm_parallel"
    /\ Call("forward", "all", percent, PwmParallelDriver_forward(percent, min_duty["par"]))
    /\ Frame
PwmParallelReverse(percent) ==
    /\ mode = "pwm_parallel"
    /\ Call("reverse", "all", percent, PwmParallelDriver_reverse(percent, min_duty["par"]))
    /\ Frame
PwmParallelCoast ==
    /\ mode = "pwm_parallel"
    /\ Call("coast", "all", 0, PwmParallelDriver_coast(min_duty["par"]))
    /\ Frame
PwmParallelStop ==
    /\ mode = "pwm_parallel"
    /\ Call("stop", "all", 0, PwmParallelDriver_stop(min_duty["par"]))
    /\ Frame
PwmParallelSetMinDuty(d) ==
    /\ mode = "pwm_parallel"
    /\ SetMinDuty("set_min_duty", "all", d, [min_duty EXCEPT !["par"] = d])

\* PWM-split-single: the duty of the PWM on the enable pin
SetDutyCycle(percent) ==
    /\ mode = "pwm_split_single"
    /\ \E debug \in BOOLEAN :
          Call("set_duty_cycle", "driver", percent,
               MotorDriver_set_duty_cycle(percent, debug))
    /\ Frame

\* sleep and wakeup exist when the sleep handle is an Option<pin>
Sleep ==
    /\ mode \in SleepPinModes
    /\ Call("sleep", "driver", 0, MotorDriver_sleep(has_sleep))
    /\ Frame
Wakeup ==
    /\ mode \in SleepPinModes
    /\ Call("wakeup", "driver", 0, MotorDriver_wakeup(has_sleep))
    /\ Frame

\* is_faulty reads the fault input, which the chip drives (level)
IsFaulty ==
    \E level \in Levels, f \in 0..Len(MotorDriver_is_faulty(has_fault).steps) :
        LET op  == MotorDriver_is_faulty(has_fault)
            eff == Effective(op.steps, f, TRUE)
            np  == ApplyPins(pin, eff)
            nd  == ApplyDuties(duty, eff)
        IN  /\ (op.steps = <<>> => level = "High")
            /\ calls < MaxCalls
            /\ calls' = calls + 1
            /\ mutex' = ApplyMutex(mutex, op.steps, f, 1)
            /\ pin' = np
            /\ duty' = nd
            /\ last' = [op |-> "is_faulty", target |-> "driver", percent |-> 0,
                        result |-> Result(op, f),
                        value |-> (f = 0 /\ is_faulty_value(has_fault, level)),
                        read |-> IF op.steps = <<>> THEN "-" ELSE level,
                        log |-> Log(op.steps, f),
                        changed |-> (np # pin \/ nd # duty)]
            /\ Frame

Next ==
    \/ \E b \in Bridges : SplitForward(b)
    \/ \E b \in Bridges : SplitReverse(b)
    \/ \E b \in Bridges : SplitCoast(b)
    \/ \E b \in Bridges : SplitStop(b)
    \/ \E b \in Bridges, percent \in Percents : PwmSplitForward(b, percent)
    \/ \E b \in Bridges, percent \in Percents : PwmSplitReverse(b, percent)
    \/ \E b \in Bridges : PwmSplitCoast(b)
    \/ \E b \in Bridges : PwmSplitStop(b)
    \/ \E b \in Bridges, d \in MinDuties : PwmBridgeSetMinDuty(b, d)
    \/ \E d \in MinDuties : PwmSplitSetMinDuty(d)
    \/ ParallelForward
    \/ ParallelReverse
    \/ ParallelCoast
    \/ ParallelStop
    \/ \E percent \in Percents : PwmParallelForward(percent)
    \/ \E percent \in Percents : PwmParallelReverse(percent)
    \/ PwmParallelCoast
    \/ PwmParallelStop
    \/ \E d \in MinDuties : PwmParallelSetMinDuty(d)
    \/ \E percent \in DutyPercents : SetDutyCycle(percent)
    \/ Sleep
    \/ Wakeup
    \/ IsFaulty

Spec == Init /\ [][Next]_vars

(***************************************************************************)
(* remap on its own: the arguments are drawn from bounded sets and the     *)
(* percentage is raised one step at a time.                                *)
(***************************************************************************)
LargeDuties == {100, 255, 1023, 4095, U16Max}
RemapDuties == (0..MaxRemapDuty) \cup LargeDuties

InitRemap ==
    /\ mode = "split"
    /\ has_sleep = FALSE
    /\ has_fault = FALSE
    /\ pin = [n \in PinNames |-> "Low"]
    /\ duty = [c \in PwmNames |-> 0]
    /\ min_duty = [o \in {"a", "b", "par"} |-> 0]
    /\ last = NoCall
    /\ calls = 0
    /\ mutex = "free"
    /\ \E min \in RemapDuties, max \in RemapDuties :
          rm = [value |-> 0, min |-> min, max |-> max, out |-> remap(0, min, max)]

RemapStep ==
    /\ rm.value < 100
    /\ rm' = [rm EXCEPT !.value = rm.value + 1,
                        !.out = remap(rm.value + 1, rm.min, rm.max)]
    /\ UNCHANGED <<mode, pin, duty, min_duty, has_sleep, has_fault, last, calls, mutex>>

NextRemap == RemapStep

SpecRemap == InitRemap /\ [][NextRemap]_vars

(***************************************************************************)
(* Vocabulary of the properties.                                           *)
(***************************************************************************)
\* the step is a call on the driver
IsCall == calls' = calls + 1
Moves == {"forward", "reverse", "coast", "stop"}
\* the level a pin write sets
LevelOf(e) == IF e.io = "set_high" THEN "High" ELSE "Low"
\* both outputs of bridge b are off / on
BridgeOff(b) ==
    IF mode = "pwm_split"
    THEN duty[In1(b)] = 0 /\ duty[In2(b)] = 0
    ELSE pin[In1(b)] = "Low" /\ pin[In2(b)] = "Low"
BridgeOn(b) ==
    IF mode = "pwm_split"
    THEN /\ duty[In1(b)] = max_duty_cycle[In1(b)]
         /\ duty[In2(b)] = max_duty_cycle[In2(b)]
    ELSE pin[In1(b)] = "High" /\ pin[In2(b)] = "High"

(***************************************************************************)
(* C1: on a binary Bridge a successful forward() leaves pin A high and pin *)
(* B low, a successful reverse() leaves pin A low and pin B high, from any *)
(* prior pin state; so a reverse() that follows a forward() swaps the pair *)
(* (A: high to low, B: low to high).                                       *)
(***************************************************************************)
C1_Step ==
    \A b \in Bridges :
        (IsCall /\ mode \in SplitModes /\ last'.target = b /\ last'.result = "Ok") =>
            /\ last'.op = "forward" =>
                  pin'[In1(b)] = "High" /\ pin'[In2(b)] = "Low"
            /\ last'.op = "reverse" =>
                  pin'[In1(b)] = "Low" /\ pin'[In2(b)] = "High"
            /\ (/\ last'.op = "reverse"
                /\ last.op = "forward" /\ last.target = b /\ last.result = "Ok") =>
                  /\ pin[In1(b)] = "High" /\ pin'[In1(b)] = "Low"
                  /\ pin[In2(b)] = "Low"  /\ pin'[In2(b)] = "High"

C1_BridgeForwardReverse == [][C1_Step]_vars

\* a successful reverse() on bridge a that changed the pins to (low, high)
C1_Witness ==
    /\ mode = "split" /\ calls = 2
    /\ last.op = "reverse" /\ last.target = "a" /\ last.result = "Ok" /\ last.changed
    /\ pin["in1"] = "Low" /\ pin["in2"] = "High"

(***************************************************************************)
(* C2: coast and stop do not depend on the prior state and are idempotent, *)
(* for binary and PWM bridges: after a successful coast() both outputs of  *)
(* the bridge are off, after a successful stop() both are on, and the same *)
(* operation called again leaves every output unchanged.                   *)
(***************************************************************************)
C2_Step ==
    \A b \in Bridges :
        (/\ IsCall /\ mode \in SplitModes \cup {"pwm_split"}
         /\ last'.target = b /\ last'.result = "Ok") =>
            /\ last'.op = "coast" => BridgeOff(b)'
            /\ last'.op = "stop" => BridgeOn(b)'
            /\ (/\ last'.op \in {"coast", "stop"}
                /\ last.op = last'.op /\ last.target = b /\ last.result = "Ok") =>
                  pin' = pin /\ duty' = duty

C2_CoastStopIdempotent == [][C2_Step]_vars

\* a successful stop() on a PWM bridge whose channels were already fully on
C2_Witness ==
    /\ mode = "pwm_split" /\ calls = 2
    /\ last.op = "stop" /\ last.target = "b" /\ last.result = "Ok" /\ ~last.changed
    /\ duty["in3"] = max_duty_cycle["in3"] /\ duty["in4"] = max_duty_cycle["in4"]

(***************************************************************************)
(* C3: every operation is fail-fast without rollback: the first request    *)
(* that fails makes the call return an error at once, no later request of  *)
(* the call is issued (an output the call issued no write to keeps its     *)
(* value), and the writes already made keep their effect.                  *)
(***************************************************************************)
C3_Step ==
    IsCall =>
        LET lg == last'.log
            failed == {i \in 1..Len(lg) : ~lg[i].ok}
        IN  /\ \A i \in failed : i = Len(lg)
            /\ \A i \in failed : last'.result # "Ok"
            /\ (last'.result = "Ok") => failed = {}
            /\ \A n \in PinNames :
                 LET ws == {i \in 1..Len(lg) : lg[i].io \in PinWrites /\ lg[i].on = n}
                 IN  /\ ws = {} => pin'[n] = pin[n]
                     /\ \A i \in ws : lg[i].ok => pin'[n] = LevelOf(lg[i])
            /\ \A c \in PwmNames :
                 LET ws == {i \in 1..Len(lg) : lg[i].io \in PwmWrites /\ lg[i].on = c}
                 IN  /\ ws = {} => duty'[c] = duty[c]
                     /\ \A i \in ws : lg[i].ok => duty'[c] = lg[i].duty

C3_FailFastNoRollback == [][C3_Step]_vars

\* parallel forward() whose third write (IN3) failed: bridge A was driven
\* forward and stays so, IN3 was not changed and IN4 was not written
C3_Witness ==
    /\ mode = "parallel"
    /\ last.op = "forward" /\ last.result = "GpioError" /\ Len(last.log) = 3
    /\ last.changed
    /\ pin["in1"] = "High" /\ pin["in2"] = "Low"
    /\ pin["in3"] = "Low" /\ pin["in4"] = "High"

(***************************************************************************)
(* C4: on a PWM bridge a successful forward(p), p in 0..100, sets channel  *)
(* A to remap(p, min_duty, A.max_duty) and channel B fully off; a          *)
(* successful reverse(p) sets channel B to remap(p, min_duty, B.max_duty)  *)
(* and channel A fully off.  min_duty is 0 after construction and then the *)
(* value of the latest set_min_duty, which issues no write and, on the     *)
(* PWM-split driver, applies to both bridges.                              *)
(***************************************************************************)
C4_State ==
    /\ calls = 0 => \A o \in DOMAIN min_duty : min_duty[o] = 0
    /\ (mode = "pwm_split" /\ last.op = "set_min_duty") =>
          /\ last.log = <<>> /\ ~last.changed
          /\ last.target = "all" =>
                min_duty["a"] = last.percent /\ min_duty["b"] = last.percent
          /\ last.target \in Bridges => min_duty[last.target] = last.percent
    /\ \A b \in Bridges :
          (/\ mode = "pwm_split" /\ last.target = b /\ last.result = "Ok"
           /\ last.percent <= 100) =>
             /\ last.op = "forward" =>
                   /\ duty[In1(b)] = remap(last.percent, min_duty[b], max_duty_cycle[In1(b)])
                   /\ duty[In2(b)] = 0
             /\ last.op = "reverse" =>
                   /\ duty[In2(b)] = remap(last.percent, min_duty[b], max_duty_cycle[In2(b)])
                   /\ duty[In1(b)] = 0

C4_PwmBridgeDuty ==
    /\ []C4_State
    /\ [][(IsCall /\ last'.op # "set_min_duty") => min_duty' = min_duty]_vars

\* forward(53) on bridge b after PwmSplitDriver::set_min_duty(10)
C4_Witness ==
    /\ mode = "pwm_split" /\ calls = 2
    /\ last.op = "forward" /\ last.target = "b" /\ last.percent = 53
    /\ last.result = "Ok"
    /\ min_duty["a"] = 10 /\ min_duty["b"] = 10
    /\ duty["in3"] = 57 /\ duty["in4"] = 0

(***************************************************************************)
(* C5: forward(p) or reverse(p) with p > 100 on a PWM bridge fails with    *)
(* InvalidRange and issues no write to either channel.                     *)
(***************************************************************************)
C5_OutOfRangeRejected ==
    (mode = "pwm_split" /\ last.op \in {"forward", "reverse"} /\ last.percent > 100) =>
        last.result = "InvalidRange" /\ last.log = <<>>

(***************************************************************************)
(* C6: in PWM-parallel mode forward(p) and reverse(p) with p > 100 return  *)
(* InvalidRange before the lock is taken; whenever the duty step of        *)
(* forward/reverse/coast/stop fails (InvalidRange, PwmLocked or            *)
(* UnableToSetDuty) no direction pin is written, and the pin levels and    *)
(* the PWM duty are as before the call, except for a PWM write that itself *)
(* failed.                                                                 *)
(***************************************************************************)
C6_Step ==
    (IsCall /\ mode = "pwm_parallel" /\ last'.op \in Moves) =>
        LET lg == last'.log
        IN  /\ last'.percent > 100 => last'.result = "InvalidRange" /\ lg = <<>>
            /\ last'.result \in {"InvalidRange", "PwmLocked", "UnableToSetDuty"} =>
                  /\ \A i \in 1..Len(lg) : lg[i].io \notin PinWrites
                  /\ pin' = pin
                  /\ \A c \in PwmNames \ {"pwm"} : duty'[c] = duty[c]
                  /\ \/ duty' = duty
                     \/ /\ last'.result = "UnableToSetDuty"
                        /\ lg[Len(lg)].io \in PwmWrites /\ ~lg[Len(lg)].ok
            /\ last'.result = "PwmLocked" =>
                  Len(lg) = 1 /\ lg[1].io = "lock" /\ ~lg[1].ok

C6_PwmParallelDutyStepFails == [][C6_Step]_vars

\* forward(150) after a successful forward(53): rejected with nothing issued
C6_Witness ==
    /\ mode = "pwm_parallel" /\ calls = 2
    /\ last.op = "forward" /\ last.percent = 150
    /\ last.result = "InvalidRange" /\ last.log = <<>>
    /\ duty["pwm"] = 52 /\ pin["in1"] = "High" /\ pin["in3"] = "High"
    /\ pin["in2"] = "Low" /\ pin["in4"] = "Low"

(***************************************************************************)
(* C7: in parallel mode each successful forward(), reverse(), coast() and  *)
(* stop() applies the same pin transitions to bridge A and bridge B within *)
(* the one call, so after it IN1 has the level of IN3 and IN2 the level of *)
(* IN4.                                                                    *)
(***************************************************************************)
C7_ParallelIdentical ==
    (mode = "parallel" /\ last.op \in Moves /\ last.result = "Ok") =>
        /\ Len(last.log) = 4
        /\ <<last.log[1].on, last.log[2].on, last.log[3].on, last.log[4].on>>
              = <<"in1", "in2", "in3", "in4">>
        /\ last.log[1].io = last.log[3].io
        /\ last.log[2].io = last.log[4].io
        /\ pin["in1"] = pin["in3"]
        /\ pin["in2"] = pin["in4"]

\* a successful reverse() that changed the pins: both bridges are (low, high)
C7_Witness ==
    /\ mode = "parallel" /\ calls = 2
    /\ last.op = "reverse" /\ last.result = "Ok" /\ last.changed
    /\ pin["in1"] = "Low" /\ pin["in3"] = "Low"
    /\ pin["in2"] = "High" /\ pin["in4"] = "High"

(***************************************************************************)
(* C8: is_faulty never changes an output.  Without a fault pin it returns  *)
(* Ok(false) and does no pin I/O; with a fault pin it reads that pin once  *)
(* and returns true exactly when the pin is low; in both cases, and when   *)
(* the read fails with GpioError, no bridge pin, sleep pin, PWM duty or    *)
(* min_duty is modified.                                                   *)
(***************************************************************************)
C8_Step ==
    (IsCall /\ last'.op = "is_faulty") =>
        LET lg == last'.log
        IN  /\ pin' = pin /\ duty' = duty /\ min_duty' = min_duty
            /\ ~has_fault =>
                  lg = <<>> /\ last'.result = "Ok" /\ last'.value = FALSE
            /\ has_fault =>
                  /\ Len(lg) = 1 /\ lg[1].io = "is_low" /\ lg[1].on = "fault"
                  /\ last'.result \in {"Ok", "GpioError"}
                  /\ last'.result = "Ok" <=> lg[1].ok
                  /\ last'.result = "Ok" => (last'.value <=> last'.read = "Low")

C8_IsFaultyReadsOnly == [][C8_Step]_vars

\* is_faulty returned Ok(true) from a low fault pin, after an earlier call
C8_Witness ==
    /\ has_fault /\ calls = 2
    /\ last.op = "is_faulty" /\ last.result = "Ok"
    /\ last.value /\ last.read = "Low" /\ ~last.changed

(***************************************************************************)
(* C9: sleep() writes only the sleep pin (low) and wakeup() writes only    *)
(* the sleep pin (high); neither writes a bridge pin or channel, so the    *)
(* bridge outputs are unchanged across them; with no sleep pin both return *)
(* success and issue no write.                                             *)
(***************************************************************************)
C9_Step ==
    (IsCall /\ last'.op \in {"sleep", "wakeup"}) =>
        LET lg == last'.log
        IN  /\ duty' = duty /\ min_duty' = min_duty
            /\ \A n \in PinNames \ {"sleep"} : pin'[n] = pin[n]
            /\ has_sleep =>
                  /\ Len(lg) = 1 /\ lg[1].on = "sleep"
                  /\ lg[1].io = (IF last'.op = "sleep" THEN "set_low" ELSE "set_high")
                  /\ last'.result = "Ok" =>
                        pin'["sleep"] = (IF last'.op = "sleep" THEN "Low" ELSE "High")
            /\ ~has_sleep => lg = <<>> /\ last'.result = "Ok" /\ pin' = pin

C9_SleepWakeOrthogonal == [][C9_Step]_vars

\* sleep() pulled the sleep pin low; bridge A is still driven forward
C9_Witness ==
    /\ mode = "split" /\ has_sleep /\ calls = 2
    /\ last.op = "sleep" /\ last.result = "Ok" /\ last.changed
    /\ pin["sleep"] = "Low"
    /\ pin["in1"] = "High" /\ pin["in2"] = "Low"

(***************************************************************************)
(* C10: for percent in 0..100 and 0 <= min <= max <= 65535, remap is       *)
(* non-decreasing in percent, remap(0, min, max) = min and                 *)
(* remap(100, min, max) = max; remap(50,0,100) = 50, remap(50,10,100) = 55,*)
(* remap(0,10,100) = 10 and remap(100,10,100) = 100.                       *)
(***************************************************************************)
C10_State ==
    rm.min <= rm.max =>
        /\ rm.value = 0 => rm.out = rm.min
        /\ rm.value = 100 => rm.out = rm.max
        /\ (rm.value = 50 /\ rm.min = 0 /\ rm.max = 100) => rm.out = 50
        /\ (rm.value = 50 /\ rm.min = 10 /\ rm.max = 100) => rm.out = 55
        /\ (rm.value = 0 /\ rm.min = 10 /\ rm.max = 100) => rm.out = 10
        /\ (rm.value = 100 /\ rm.min = 10 /\ rm.max = 100) => rm.out = 100

C10_RemapMonotone ==
    /\ []C10_State
    /\ [][rm.min <= rm.max => rm'.out >= rm.out]_vars

\* remap(50, 10, 100) = 55
C10_Witness == rm = [value |-> 50, min |-> 10, max |-> 100, out |-> 55]

(***************************************************************************)
(* C11: remap(percent, min_duty, max_duty) is                              *)
(* percent/100 * (max_duty - min_duty) + min_duty rounded to the nearest   *)
(* integer, for percent in 0..100 and min_duty <= max_duty.  The code      *)
(* casts with `as u16`, which truncates: remap(50, 0, 3) is 1, not 2.      *)
(***************************************************************************)
\* 100 times the exact value of the interpolation
C11_Exact100 == rm.value * (rm.max - rm.min) + 100 * rm.min

\* the statement as given: the result is the exact value rounded to nearest
C11_RoundsToNearest ==
    rm.min <= rm.max => rm.out = (2 * C11_Exact100 + 100) \div 200

\* what holds: the result is the exact value truncated, or one less where
\* the f32 quotient percent / 100.0 falls short of the exact one
C11_Truncates ==
    rm.min <= rm.max =>
        /\ rm.out <= C11_Exact100 \div 100
        /\ rm.out >= C11_Exact100 \div 100 - 1

\* remap(50, 0, 3): the exact value is 1.5 and the result is 1
C11_Witness == rm = [value |-> 50, min |-> 0, max |-> 3, out |-> 1]

(***************************************************************************)
(* C12: every PWM mode special-cases the ends of the percentage range:     *)
(* for any min_duty, a movement with percent 0 sets the driven channel     *)
(* fully off (duty 0, not min_duty) and a movement with percent 100 sets   *)
(* it fully on, on the PWM-split bridges and on the PWM-parallel shared    *)
(* channel alike.  PwmBridge has no such case: after set_min_duty(10),     *)
(* forward(0) writes duty 10.                                              *)
(***************************************************************************)
\* the channel that carries the speed of the last movement
C12_Driven ==
    IF mode = "pwm_parallel" THEN "pwm"
    ELSE IF last.op = "forward" THEN In1(last.target) ELSE In2(last.target)

C12_EndsSpecialCased ==
    (mode \in {"pwm_split", "pwm_parallel"} /\ last.op \in {"forward", "reverse"}) =>
        \A i \in 1..Len(last.log) :
            (/\ last.log[i].on = C12_Driven
             /\ last.log[i].io \in PwmWrites
             /\ last.log[i].ok) =>
                /\ last.percent = 0 => last.log[i].duty = 0
                /\ last.percent = 100 =>
                      last.log[i].duty = max_duty_cycle[C12_Driven]

(***************************************************************************)
(* C13: in PWM-parallel mode each operation writes the shared PWM first    *)
(* and then drives bridge A and bridge B identically, in that order:       *)
(* forward(p) / reverse(p) set the shared duty to the duty of p (fully off *)
(* for 0, fully on for 100, remap(p, min_duty, max) between) and put both  *)
(* bridges in forward / reverse; coast() sets the PWM fully off and the    *)
(* four pins low; stop() sets the PWM fully on and the four pins high.     *)
(***************************************************************************)
\* the order of the requests of one operation
C13_Order == <<"pwm", "pwm", "in1", "in2", "in3", "in4">>

\* the duty the last operation asks for
C13_Duty ==
    IF last.op = "coast" \/ (last.op \in {"forward", "reverse"} /\ last.percent = 0)
    THEN 0
    ELSE IF last.op = "stop" \/ last.percent = 100
    THEN max_duty_cycle["pwm"]
    ELSE remap_tab(last.percent, min_duty["par"], max_duty_cycle["pwm"])

\* the levels the last operation gives IN1 (= IN3) and IN2 (= IN4)
C13_Levels ==
    CASE last.op = "forward" -> <<"High", "Low">>
      [] last.op = "reverse" -> <<"Low", "High">>
      [] last.op = "coast"   -> <<"Low", "Low">>
      [] OTHER               -> <<"High", "High">>

C13_PwmParallelOrder ==
    (mode = "pwm_parallel" /\ last.op \in Moves) =>
        /\ Len(last.log) <= 6
        /\ \A i \in 1..Len(last.log) : last.log[i].on = C13_Order[i]
        /\ last.result = "Ok" =>
              /\ Len(last.log) = 6
              /\ last.log[1].io = "lock"
              /\ last.log[2].io \in PwmWrites /\ last.log[2].duty = C13_Duty
              /\ \A i \in 3..6 :
                    LevelOf(last.log[i]) = C13_Levels[IF i \in {3, 5} THEN 1 ELSE 2]
              /\ duty["pwm"] = C13_Duty
              /\ <<pin["in1"], pin["in2"]>> = C13_Levels
              /\ <<pin["in3"], pin["in4"]>> = C13_Levels

\* forward(53) with min_duty 10: the PWM is at remap(53, 10, 100) = 57 and
\* both bridges are forward
C13_Witness ==
    /\ mode = "pwm_parallel" /\ calls = 2 /\ min_duty["par"] = 10
    /\ last.op = "forward" /\ last.percent = 53 /\ last.result = "Ok"
    /\ duty["pwm"] = 57
    /\ pin["in1"] = "High" /\ pin["in2"] = "Low"
    /\ pin["in3"] = "High" /\ pin["in4"] = "Low"

(***************************************************************************)
(* C14: the shared PWM of PWM-parallel mode is written only while its      *)
(* Mutex is held; the lock is taken once per PWM write and is released on  *)
(* every path (success, and failure of the PWM write) before the direction *)
(* pins are written and before the operation returns, so no operation      *)
(* returns holding the lock; when the lock cannot be acquired the          *)
(* operation returns PwmLocked at once, without a second attempt and with  *)
(* no PWM or pin write.                                                    *)
(***************************************************************************)
C14_Step ==
    (IsCall /\ mode = "pwm_parallel") =>
        LET lg     == last'.log
            locks  == {i \in 1..Len(lg) : lg[i].io = "lock"}
            writes == {i \in 1..Len(lg) : lg[i].io \in PwmWrites /\ lg[i].on = "pwm"}
        IN  /\ mutex = "free" /\ mutex' = "free"
            /\ \A i \in writes : lg[i].held /\ (i - 1) \in locks /\ lg[i - 1].ok
            /\ \A i \in locks : lg[i].ok => (i + 1) \in writes
            /\ \A i \in 1..Len(lg) : lg[i].io \in PinWrites => ~lg[i].held
            /\ Cardinality(locks) <= 1
            /\ (\E i \in locks : ~lg[i].ok) <=> last'.result = "PwmLocked"
            /\ last'.result = "PwmLocked" =>
                  Len(lg) = 1 /\ pin' = pin /\ duty' = duty

C15_Step ==
    (IsCall /\ mode = "pwm_split_single") =>
        LET lg == last'.log
        IN  /\ (last'.op = "set_duty_cycle" /\ last'.percent <= 100) =>
                  /\ Len(lg) = 1 /\ lg[1].on = "pwm" /\ lg[1].io = "set_duty_cycle"
                  /\ 100 * lg[1].duty <= last'.percent * max_duty_cycle["pwm"]
                  /\ 100 * (lg[1].duty + 1) > last'.percent * max_duty_cycle["pwm"]
                  /\ last'.percent = 50 => lg[1].duty = 50
                  /\ last'.result = "Ok" => duty'["pwm"] = lg[1].duty
                  /\ pin' = pin
                  /\ \A c \in PwmNames \ {"pwm"} : duty'[c] = duty[c]
            /\ last'.op \in Moves =>
                  /\ duty' = duty
                  /\ \A i \in 1..Len(lg) :
                        /\ lg[i].io \in PinWrites
                        /\ lg[i].on \in {In1(last'.target), In2(last'.target)}
                  /\ \A n \in PinNames \ {In1(last'.target), In2(last'.target)} :
                        pin'[n] = pin[n]

C15_SingleSharedPwm == [][C15_Step]_vars

\* set_duty_cycle(50) after a.forward(): the PWM is at 50 and bridge a is
\* still forward
C15_Witness ==
    /\ mode = "pwm_split_single" /\ calls = 2
    /\ last.op = "set_duty_cycle" /\ last.percent = 50 /\ last.result = "Ok"
    /\ last.changed /\ duty["pwm"] = 50
    /\ pin["in1"] = "High" /\ pin["in2"] = "Low"

(***************************************************************************)
(* C18: MotorDriver::set_duty_cycle(percent) in PWM-split-single mode      *)
(* treats a percent above 100 as an input-validation error: it returns     *)
(* InvalidRange, does not clamp and issues no write to the PWM channel.    *)
(* The code has no such check: it hands the percent to the platform, which *)
(* panics (debug assertions) or writes duty percent * max / 100.           *)
(***************************************************************************)
C18_DutyRangeChecked ==
    (mode = "pwm_split_single" /\ last.op = "set_duty_cycle" /\ last.percent > 100) =>
        last.result = "InvalidRange" /\ last.log = <<>>

(***************************************************************************)
(* C16: in split and PWM-split modes the two bridges are independent: any  *)
(* operation on bridge A (forward, reverse, coast, stop, successful or     *)
(* failed) writes only IN1 / IN2 and leaves IN3 / IN4 unchanged, and any   *)
(* operation on bridge B writes only IN3 / IN4 and leaves IN1 / IN2        *)
(* unchanged.                                                              *)
(***************************************************************************)
C16_Step ==
    (/\ IsCall /\ mode \in {"split", "pwm_split"}
     /\ last'.op \in Moves /\ last'.target \in Bridges) =>
        LET own == {In1(last'.target), In2(last'.target)}
        IN  /\ \A i \in 1..Len(last'.log) : last'.log[i].on \in own
            /\ \A n \in PinNames \ own : pin'[n] = pin[n]
            /\ \A c \in PwmNames \ own : duty'[c] = duty[c]

C16_BridgesIndependent == [][C16_Step]_vars

\* PWM-split: b.reverse(53) after a.forward(100): bridge a keeps its duties
C16_Witness ==
    /\ mode = "pwm_split" /\ calls = 2
    /\ last.op = "reverse" /\ last.target = "b" /\ last.result = "Ok"
    /\ last.percent = 53 /\ last.changed
    /\ duty["in1"] = 100 /\ duty["in2"] = 0
    /\ duty["in3"] = 0 /\ duty["in4"] = 105

(***************************************************************************)
(* C17: the error variant tells which kind of request failed, in every     *)
(* operation of every mode: a failed PWM duty write (the fully-on and      *)
(* fully-off writes of coast and stop on a PWM bridge included) is         *)
(* reported as UnableToSetDuty, and GpioError is reported only when        *)
(* setting a digital pin or reading the fault pin fails.  PwmBridge::coast *)
(* and PwmBridge::stop report a failed duty write as GpioError.            *)
(***************************************************************************)
C17_ErrorNamesRequest ==
    \A i \in 1..Len(last.log) :
        ~last.log[i].ok =>
            /\ last.log[i].io \in PwmWrites => last.result = "UnableToSetDuty"
            /\ last.result = "GpioError" =>
                  last.log[i].io \in PinWrites \cup {"is_low"}

(***************************************************************************)
(* C19: duty values stay inside the channel's range: in a call of forward, *)
(* reverse, coast or stop on a PWM bridge or a PWM-parallel driver with    *)
(* percent in 0..100 and a min_duty that is at most the channel's          *)
(* max_duty_cycle, every duty d written to a channel satisfies             *)
(* 0 <= d <= max_duty_cycle of that channel, and the duty a forward /      *)
(* reverse with 0 < percent < 100 gives the driven channel is at least     *)
(* min_duty.                                                               *)
(***************************************************************************)
\* the min_duty the last call worked with
C19_MinDuty ==
    IF mode = "pwm_parallel" THEN min_duty["par"] ELSE min_duty[last.target]

C19_DutyInRange ==
    (/\ mode \in {"pwm_split", "pwm_parallel"} /\ last.op \in Moves
     /\ last.percent <= 100
     /\ \A i \in 1..Len(last.log) :
           last.log[i].io \in PwmWrites =>
               C19_MinDuty <= max_duty_cycle[last.log[i].on]) =>
        \A i \in 1..Len(last.log) :
            last.log[i].io \in PwmWrites =>
                /\ 0 <= last.log[i].duty
                /\ last.log[i].duty <= max_duty_cycle[last.log[i].on]
                /\ (/\ last.op \in {"forward", "reverse"}
                    /\ 0 < last.percent /\ last.percent < 100
                    /\ last.log[i].io = "set_duty_cycle") =>
                      last.log[i].duty >= C19_MinDuty

\* a.reverse(53) after set_min_duty(10): IN2 (maximum 200) is written 110
C19_Witness ==
    /\ mode = "pwm_split" /\ calls = 2 /\ min_duty["a"] = 10
    /\ last.op = "reverse" /\ last.target = "a" /\ last.percent = 53
    /\ last.result = "Ok"
    /\ last.log[2].io = "set_duty_cycle" /\ last.log[2].duty = 110
    /\ duty["in2"] = 110

=============================================================================
